---- MODULE Spec2Model ----
(***************************************************************************)
(* Model of src/src/forfix/paramgen.rs: the Pointproofs parameter set, its *)
(* compressed wire format (SerDes::serialize / SerDes::deserialize) and    *)
(* the probabilistic well-formedness check consistent().                   *)
(*                                                                         *)
(* The pairing groups are modelled by discrete logarithms: a point of G1   *)
(* or G2 is its exponent in Z_q with respect to the group generator, the   *)
(* identity is 0, the generator is 1, and an element of GT is its exponent *)
(* with respect to e(g1,g2), so that e(g1^a, g2^b) = e(g1,g2)^(a*b).       *)
(***************************************************************************)
EXTENDS Integers, Sequences, FiniteSets, TLC

\* ------------------------------------------------------------------ bounds
MaxN == 2           \* largest vector capacity n generated
OrderIdx == 1       \* index of the (prime) group order in Primes
MaxEntropy == 2     \* the entropy source yields the values 0..MaxEntropy
G1Size == 2         \* bytes of a compressed G1 point
G2Size == 3         \* bytes of a compressed G2 point
GtSize == 4         \* bytes of a serialized GT element
MaxPad == 1         \* longest padding appended to a wire image

Primes == <<7, 11, 13, 17>>
q == Primes[OrderIdx]
Fr == 0 .. (q - 1)

\* ------------------------------------------------------- program constants
MaxAllowedN == 65535
RBufLen == 64
HeaderSize == 4

\* --------------------------------------------------------- group arithmetic
G1Zero == 0
G1One == 1
G2Zero == 0
G2One == 1

Add(a, b) == (a + b) % q
Sub(a, b) == (a + q - b) % q
Mul(pt, s) == (pt * s) % q
Pairing(p1, p2) == (p1 * p2) % q

RECURSIVE Pow(_, _)
Pow(a, k) == IF k = 0 THEN 1 % q ELSE (a * Pow(a, k - 1)) % q

RECURSIVE SumOfProducts(_, _)
SumOfProducts(points, scalars) ==
    IF points = <<>> \/ scalars = <<>> THEN 0
    ELSE Add(Mul(Head(points), Head(scalars)),
             SumOfProducts(Tail(points), Tail(scalars)))

\* Rust's s[lo..hi] with 0-based half-open bounds
Slice(s, lo, hi) == SubSeq(s, lo + 1, hi)
SliceOk(s, lo, hi) == 0 <= lo /\ lo <= hi /\ hi <= Len(s)

\* ----------------------------------------------------------- parameter sets
Ladders == {"g1_alpha_1_to_n", "g1_alpha_nplus2_to_2n",
            "g2_alpha_1_to_n", "g2_alpha_nplus2_to_2n"}

HonestParams(alpha, n) ==
    [n |-> n,
     g1_alpha_1_to_n |-> [i \in 1 .. n |-> Pow(alpha, i)],
     g1_alpha_nplus2_to_2n |-> [i \in 1 .. (n - 1) |-> Pow(alpha, n + 1 + i)],
     g2_alpha_1_to_n |-> [i \in 1 .. n |-> Pow(alpha, i)],
     g2_alpha_nplus2_to_2n |-> [i \in 1 .. (n - 1) |-> Pow(alpha, n + 1 + i)],
     gt_alpha_nplus1 |-> Pow(alpha, n + 1)]

\* the group elements an entry holding old can be replaced by
Replacements(old) == Fr \ {old}

\* where a parameter set comes from: an honest generation from alpha, with at
\* most one ladder entry replaced afterwards
Origins ==
    {[alpha |-> a, n |-> n, ladder |-> "none", idx |-> 0, val |-> 0] :
        a \in Fr, n \in 1 .. MaxN}
    \cup
    {o \in [alpha : Fr, n : 1 .. MaxN, ladder : Ladders, idx : 1 .. MaxN, val : Fr] :
        /\ o.idx <= Len(HonestParams(o.alpha, o.n)[o.ladder])
        /\ o.val \in Replacements(HonestParams(o.alpha, o.n)[o.ladder][o.idx])}

Build(o) ==
    IF o.ladder = "none" THEN HonestParams(o.alpha, o.n)
    ELSE [HonestParams(o.alpha, o.n) EXCEPT ![o.ladder][o.idx] = o.val]

\* ------------------------------------------------------------- wire format
Zeros(k) == [i \in 1 .. k |-> 0]

\* variant: the four bytes of n most significant first
ToBeBytes(n) ==
    <<(n \div 16777216) % 256, (n \div 65536) % 256, (n \div 256) % 256, n % 256>>
ToLeBytes(n) ==
    <<n % 256, (n \div 256) % 256, (n \div 65536) % 256, (n \div 16777216) % 256>>
FromLeBytes(b) == b[1] + 256 * b[2] + 65536 * b[3] + 16777216 * b[4]

\* compressed point: big-endian exponent, the compression flag in the top bit
\* of the first byte
EncPoint(x, size) ==
    [i \in 1 .. size |-> (IF i = 1 THEN 128 ELSE 0) + (IF i = size THEN x ELSE 0)]
DecPoint(b, size) ==
    LET v == b[size] - (IF size = 1 THEN 128 ELSE 0)
        okv == /\ b[1] >= 128
               /\ \A i \in 1 .. size : (i # 1 /\ i # size) => b[i] = 0
               /\ (size > 1 => b[1] = 128)
               /\ v >= 0 /\ v < q
    IN  [ok |-> okv, val |-> IF okv THEN v ELSE 0]

\* GT element: big-endian exponent, no flag
EncGt(x) == [i \in 1 .. GtSize |-> IF i = GtSize THEN x ELSE 0]
DecGt(b) ==
    LET okv == (\A i \in 1 .. (GtSize - 1) : b[i] = 0) /\ b[GtSize] < q
    IN  [ok |-> okv, val |-> IF okv THEN b[GtSize] ELSE 0]

RECURSIVE WritePoints(_, _)
WritePoints(points, size) ==
    IF points = <<>> THEN <<>>
    ELSE EncPoint(Head(points), size) \o WritePoints(Tail(points), size)

\* variant: serialize without the test of `compressed`
SerializeAnyMode(p, w0, compressed) ==
    [ok |-> TRUE,
     w |-> w0 \o ToLeBytes(p.n)
              \o WritePoints(p.g1_alpha_1_to_n, G1Size)
              \o WritePoints(p.g1_alpha_nplus2_to_2n, G1Size)
              \o WritePoints(p.g2_alpha_1_to_n, G2Size)
              \o WritePoints(p.g2_alpha_nplus2_to_2n, G2Size)
              \o EncGt(p.gt_alpha_nplus1)]

\* variant: serialize writing both main ladders before both gap ladders
SerializeMainFirst(p, w0, compressed) ==
    IF ~compressed THEN [ok |-> FALSE, w |-> w0]
    ELSE [ok |-> TRUE,
          w |-> w0 \o ToLeBytes(p.n)
                   \o WritePoints(p.g1_alpha_1_to_n, G1Size)
                   \o WritePoints(p.g2_alpha_1_to_n, G2Size)
                   \o WritePoints(p.g1_alpha_nplus2_to_2n, G1Size)
                   \o WritePoints(p.g2_alpha_nplus2_to_2n, G2Size)
                   \o EncGt(p.gt_alpha_nplus1)]

\* SerDes::serialize: the writer after the call and whether it returned Ok
Serialize(p, w0, compressed) ==
    IF ~compressed THEN [ok |-> FALSE, w |-> w0]
    \* self.n > u32::max_value(), written on the two 16-bit halves of n
    ELSE IF p.n \div 65536 > 65535 THEN [ok |-> FALSE, w |-> w0]
    ELSE [ok |-> TRUE,
          w |-> w0 \o ToLeBytes(p.n)
                   \o WritePoints(p.g1_alpha_1_to_n, G1Size)
                   \o WritePoints(p.g1_alpha_nplus2_to_2n, G1Size)
                   \o WritePoints(p.g2_alpha_1_to_n, G2Size)
                   \o WritePoints(p.g2_alpha_nplus2_to_2n, G2Size)
                   \o EncGt(p.gt_alpha_nplus1)]

\* Read::read_exact on a byte slice: k bytes from position pos, or an error
ReadExact(buf, pos, k) ==
    IF pos + k > Len(buf) THEN [ok |-> FALSE, bytes |-> <<>>, pos |-> pos]
    ELSE [ok |-> TRUE, bytes |-> SubSeq(buf, pos + 1, pos + k), pos |-> pos + k]

\* variant: the loop ending at the first point that cannot be read, without
\* passing the error on
RECURSIVE ReadPointsLenient(_, _, _, _)
ReadPointsLenient(buf, pos, count, size) ==
    IF count = 0 THEN [ok |-> TRUE, pts |-> <<>>, pos |-> pos]
    ELSE LET rd == ReadExact(buf, pos, size)
             d == DecPoint(rd.bytes, size)
         IN  IF ~rd.ok THEN [ok |-> TRUE, pts |-> <<>>, pos |-> pos]
             ELSE IF ~d.ok THEN [ok |-> TRUE, pts |-> <<>>, pos |-> pos]
             ELSE LET rest == ReadPointsLenient(buf, rd.pos, count - 1, size)
                  IN  [ok |-> TRUE, pts |-> <<d.val>> \o rest.pts, pos |-> rest.pos]

\* the loop `for _ in 0..count { let tmp = G::deserialize(r, true)?; v.push(tmp) }`
RECURSIVE ReadPoints(_, _, _, _)
ReadPoints(buf, pos, count, size) ==
    IF count = 0 THEN [ok |-> TRUE, pts |-> <<>>, pos |-> pos]
    ELSE LET rd == ReadExact(buf, pos, size)
             d == DecPoint(rd.bytes, size)
         IN  IF ~rd.ok THEN [ok |-> FALSE, pts |-> <<>>, pos |-> pos]
             ELSE IF ~d.ok THEN [ok |-> FALSE, pts |-> <<>>, pos |-> rd.pos]
             ELSE LET rest == ReadPoints(buf, rd.pos, count - 1, size)
                  IN  [ok |-> rest.ok,
                       pts |-> IF rest.ok THEN <<d.val>> \o rest.pts ELSE <<>>,
                       pos |-> rest.pos]

NoParams == [n |-> 0]
Failed(pos) == [ok |-> FALSE, val |-> NoParams, pos |-> pos]

\* SerDes::deserialize on the byte slice buf: Ok(params) or Err, and the
\* number of bytes consumed from the reader
Deserialize(buf, compressed) ==
    IF ~compressed THEN Failed(0)
    ELSE
    LET hd == ReadExact(buf, 0, HeaderSize) IN
    IF ~hd.ok THEN Failed(0)
    ELSE
    LET n == FromLeBytes(hd.bytes) IN
    IF n > MaxAllowedN \/ n = 0 THEN Failed(hd.pos)
    ELSE
    LET l1 == ReadPoints(buf, hd.pos, n, G1Size) IN
    IF ~l1.ok THEN Failed(l1.pos)
    ELSE
    LET l2 == ReadPoints(buf, l1.pos, n - 1, G1Size) IN
    IF ~l2.ok THEN Failed(l2.pos)
    ELSE
    LET l3 == ReadPoints(buf, l2.pos, n, G2Size) IN
    IF ~l3.ok THEN Failed(l3.pos)
    ELSE
    LET l4 == ReadPoints(buf, l3.pos, n - 1, G2Size) IN
    IF ~l4.ok THEN Failed(l4.pos)
    ELSE
    LET rd == ReadExact(buf, l4.pos, GtSize)
        gt == DecGt(rd.bytes)
    IN
    IF ~rd.ok THEN Failed(l4.pos)
    ELSE IF ~gt.ok THEN Failed(rd.pos)
    ELSE [ok |-> TRUE,
          val |-> [n |-> n,
                   g1_alpha_1_to_n |-> l1.pts,
                   g1_alpha_nplus2_to_2n |-> l2.pts,
                   g2_alpha_1_to_n |-> l3.pts,
                   g2_alpha_nplus2_to_2n |-> l4.pts,
                   gt_alpha_nplus1 |-> gt.val],
          pos |-> rd.pos]

\* what a caller hands to deserialize, built from the parameter set p: its wire
\* image, the image cut short or padded, the image under another declared n,
\* and the images of structures whose ladder lengths do not match their n
Wire(p) == Serialize(p, <<>>, TRUE).w
LensOf(p) == <<Len(p.g1_alpha_1_to_n), Len(p.g1_alpha_nplus2_to_2n),
               Len(p.g2_alpha_1_to_n), Len(p.g2_alpha_nplus2_to_2n)>>
AllG1(p) == p.g1_alpha_1_to_n \o p.g1_alpha_nplus2_to_2n
Regrouped(p, k) ==
    [p EXCEPT !.g1_alpha_1_to_n = SubSeq(AllG1(p), 1, k),
              !.g1_alpha_nplus2_to_2n = SubSeq(AllG1(p), k + 1, Len(AllG1(p)))]
Misshapen(p) ==
    {Regrouped(p, k) : k \in (0 .. Len(AllG1(p))) \ {p.n}}
    \cup {[p EXCEPT !.g2_alpha_nplus2_to_2n = Append(@, 2)],
          [p EXCEPT !.g2_alpha_1_to_n = Tail(@)]}
Headers(p) == {0, p.n - 1, p.n + 1, MaxAllowedN, MaxAllowedN + 1} \ {p.n, -1}
Input(kind, n, lens, bytes) == [kind |-> kind, n |-> n, lens |-> lens, bytes |-> bytes]
Inputs(p) ==
    {Input("valid", p.n, LensOf(p), Wire(p))}
    \cup {Input("truncated", p.n, LensOf(p), SubSeq(Wire(p), 1, k)) :
            k \in 0 .. (Len(Wire(p)) - 1)}
    \cup {Input("padded", p.n, LensOf(p), Wire(p) \o Zeros(k)) : k \in 1 .. MaxPad}
    \cup {Input("header", h, LensOf(p), ToLeBytes(h) \o SubSeq(Wire(p), HeaderSize + 1, Len(Wire(p)))) :
            h \in Headers(p)}
    \cup {Input("misshapen", m.n, LensOf(m), Wire(m)) : m \in Misshapen(p)}
NoInput == Input("none", 0, <<>>, <<>>)

\* ---------------------------------------------------------- random_scalar
FillBytes(buf, e) == [i \in DOMAIN buf |-> e]
Zeroize(buf) == [i \in DOMAIN buf |-> 0]

\* hash_to_field_pointproofs: the bytes as a big-endian integer, reduced
\* (computed by halves to keep the evaluation shallow)
RECURSIVE Os2ipMod(_, _, _)
Os2ipMod(buf, lo, hi) ==
    IF lo > hi THEN 0
    ELSE IF lo = hi THEN buf[lo] % q
    ELSE LET mid == (lo + hi) \div 2
         IN  (Os2ipMod(buf, lo, mid) * Pow(256 % q, hi - mid)
                + Os2ipMod(buf, mid + 1, hi)) % q
HashToField(buf) == Os2ipMod(buf, 1, Len(buf))

\* the content of a buffer: how many of its bytes hold each value
Content(buf) ==
    [v \in {buf[i] : i \in DOMAIN buf} |-> Cardinality({i \in DOMAIN buf : buf[i] = v})]

\* random_scalar: the scalar returned and the entropy buffer it leaves behind
RandomScalar(e) ==
    LET r0 == Zeros(RBufLen)
        filled == FillBytes(r0, e)
        res == HashToField(filled)
    IN  [res |-> res, r |-> Zeroize(filled)]

\* ------------------------------------------------------------------ state
VARIABLES
    origin,     \* how params was made: the trapdoor and the replaced entry
    params,     \* the PointproofsParams under test
    pc,         \* "idle", a position inside consistent(), "ret" or "done"
    call,       \* the operation invoked, with its arguments
    w,          \* the writer handed to serialize
    outcome,    \* "none", or "ok" / "err" of serialize and deserialize
    des,        \* what deserialize returned and how far it read
    rs_owned,   \* consistent: the coefficients sampled so far
    r,          \* random_scalar: the content of its entropy buffer after the last call
    pts,        \* consistent: pt_s, pt_r1, pt_r2, pt_t, pt_u1, pt_u2
    evaluated,  \* consistent: the pairings evaluated so far, in order
    ret         \* consistent: "none", "true", "false" or "abort"

vars == <<origin, params, pc, call, w, outcome, des, rs_owned, r, pts, evaluated, ret>>

NoPts == [s |-> 0, r1 |-> 0, r2 |-> 0, t |-> 0, u1 |-> 0, u2 |-> 0]
Call(op, compressed, input) == [op |-> op, compressed |-> compressed, input |-> input]

Init ==
    /\ origin \in Origins
    /\ params = Build(origin)
    /\ pc = "idle"
    /\ call = Call("none", TRUE, NoInput)
    /\ w = <<>>
    /\ outcome = "none"
    /\ des = Failed(0)
    /\ rs_owned = <<>>
    /\ r = Content(Zeros(RBufLen))
    /\ pts = NoPts
    /\ evaluated = <<>>
    /\ ret = "none"

consistentVars == <<rs_owned, r, pts, evaluated, ret>>

CallSerialize ==
    /\ pc = "idle"
    /\ \E compressed \in BOOLEAN :
          LET res == Serialize(params, w, compressed) IN
          /\ w' = res.w
          /\ outcome' = IF res.ok THEN "ok" ELSE "err"
          /\ call' = Call("serialize", compressed, NoInput)
    /\ pc' = "done"
    /\ UNCHANGED <<origin, params, des, consistentVars>>

CallDeserialize ==
    /\ pc = "idle"
    /\ \E input \in Inputs(params), compressed \in BOOLEAN :
          LET res == Deserialize(input.bytes, compressed) IN
          /\ des' = res
          /\ outcome' = IF res.ok THEN "ok" ELSE "err"
          /\ call' = Call("deserialize", compressed, input)
    /\ pc' = "done"
    /\ UNCHANGED <<origin, params, w, consistentVars>>

\* ------------------------------------------------------------ consistent
\* variant: the point test without the comparison to the generator
AnyZero(ladder, zero, one) == \E i \in DOMAIN ladder : ladder[i] = zero

AnyZeroOrOne(ladder, zero, one) ==
    \E i \in DOMAIN ladder : ladder[i] = zero \/ ladder[i] = one

CallConsistent ==
    /\ pc = "idle"
    /\ pc' = "chk_g2_main"
    /\ call' = Call("consistent", TRUE, NoInput)
    /\ UNCHANGED <<origin, params, w, outcome, des, consistentVars>>

PointCheck(at, ladder, zero, one, next) ==
    /\ pc = at
    /\ IF AnyZeroOrOne(ladder, zero, one)
       THEN pc' = "ret" /\ ret' = "false"
       ELSE pc' = next /\ ret' = ret
    /\ UNCHANGED <<origin, params, call, w, outcome, des, rs_owned, r, pts, evaluated>>

CheckG2Main == PointCheck("chk_g2_main", params.g2_alpha_1_to_n, G2Zero, G2One, "chk_g2_gap")
CheckG2Gap == PointCheck("chk_g2_gap", params.g2_alpha_nplus2_to_2n, G2Zero, G2One, "chk_g1_main")
CheckG1Main == PointCheck("chk_g1_main", params.g1_alpha_1_to_n, G1Zero, G1One, "chk_g1_gap")
CheckG1Gap == PointCheck("chk_g1_gap", params.g1_alpha_nplus2_to_2n, G1Zero, G1One, "sample")

\* one turn of `for _ in 0..params.n { rs_owned.push(random_scalar().into_repr()) }`
Sample ==
    /\ pc = "sample"
    /\ Len(rs_owned) < params.n
    /\ \E e \in 0 .. MaxEntropy :
          LET got == RandomScalar(e) IN
          /\ rs_owned' = Append(rs_owned, got.res)
          /\ r' = Content(got.r)
    /\ UNCHANGED <<origin, params, pc, call, w, outcome, des, pts, evaluated, ret>>

\* variant: the gap ladders sliced [0..n] instead of [0..n-1]
SlicesOkGapToN(p, rs) ==
    LET n == p.n IN
    /\ n >= 1
    /\ SliceOk(p.g1_alpha_1_to_n, 0, n - 1) /\ SliceOk(rs, 0, n - 1)
    /\ n - 1 < Len(p.g1_alpha_1_to_n) /\ n - 1 < Len(rs)
    /\ SliceOk(p.g2_alpha_1_to_n, 0, n) /\ SliceOk(rs, 0, n)
    /\ SliceOk(p.g1_alpha_1_to_n, 1, n)
    /\ SliceOk(p.g1_alpha_nplus2_to_2n, 0, n)
    /\ SliceOk(p.g2_alpha_nplus2_to_2n, 0, n)
    /\ 0 < Len(p.g2_alpha_1_to_n)

\* every slice and index of lines 184-213 is within its sequence
SlicesOk(p, rs) ==
    LET n == p.n IN
    /\ n >= 1
    /\ SliceOk(p.g1_alpha_1_to_n, 0, n - 1) /\ SliceOk(rs, 0, n - 1)
    /\ n - 1 < Len(p.g1_alpha_1_to_n) /\ n - 1 < Len(rs)
    /\ SliceOk(p.g2_alpha_1_to_n, 0, n) /\ SliceOk(rs, 0, n)
    /\ SliceOk(p.g1_alpha_1_to_n, 1, n)
    /\ SliceOk(p.g1_alpha_nplus2_to_2n, 0, n - 1)
    /\ SliceOk(p.g2_alpha_nplus2_to_2n, 0, n - 1)
    /\ 0 < Len(p.g2_alpha_1_to_n)

PtS(p, rs) == SumOfProducts(Slice(p.g1_alpha_1_to_n, 0, p.n - 1), Slice(rs, 0, p.n - 1))
PtR1(p, rs) == Add(Mul(p.g1_alpha_1_to_n[p.n], rs[p.n]), PtS(p, rs))
PtR2(p, rs) == SumOfProducts(Slice(p.g2_alpha_1_to_n, 0, p.n), Slice(rs, 0, p.n))
\* variant: T over the same slice as S
PtTUnshifted(p, rs) ==
    SumOfProducts(Slice(p.g1_alpha_1_to_n, 0, p.n - 1), Slice(rs, 0, p.n - 1))
PtT(p, rs) == SumOfProducts(Slice(p.g1_alpha_1_to_n, 1, p.n), Slice(rs, 0, p.n - 1))
PtU1(p, rs) == SumOfProducts(Slice(p.g1_alpha_nplus2_to_2n, 0, p.n - 1), Slice(rs, 0, p.n - 1))
PtU2(p, rs) == SumOfProducts(Slice(p.g2_alpha_nplus2_to_2n, 0, p.n - 1), Slice(rs, 0, p.n - 1))

ComputeSums ==
    /\ pc = "sample"
    /\ Len(rs_owned) >= params.n
    /\ IF SlicesOk(params, rs_owned)
       THEN /\ pts' = [s |-> PtS(params, rs_owned), r1 |-> PtR1(params, rs_owned),
                       r2 |-> PtR2(params, rs_owned), t |-> PtT(params, rs_owned),
                       u1 |-> PtU1(params, rs_owned), u2 |-> PtU2(params, rs_owned)]
            /\ pc' = "check1"
            /\ ret' = ret
       ELSE /\ pts' = pts
            /\ pc' = "ret"
            /\ ret' = "abort"
    /\ UNCHANGED <<origin, params, call, w, outcome, des, rs_owned, r, evaluated>>

G2Alpha(p) == p.g2_alpha_1_to_n[1]

\* 1: e(R_1, g_2) = e(g_1, R_2)
Check1Fails(p, pt) == Pairing(pt.r1, G2One) # Pairing(G1One, pt.r2)
\* 2: e(S, g_2^alpha) = e(T, g_2)
Check2Fails(p, pt) == Pairing(pt.s, G2Alpha(p)) # Pairing(pt.t, G2One)
\* variant: check 3 on the first entry of the ladder instead of the last
Check3FailsFirstEntry(p, pt) ==
    Sub(Pairing(p.g1_alpha_1_to_n[1], G2Alpha(p)), p.gt_alpha_nplus1) # 0
\* 3: e(g_1^{alpha^N}, g_2^alpha) = "e(g_1, g_2)^{alpha^{N+1}}"
Check3Fails(p, pt) ==
    Sub(Pairing(p.g1_alpha_1_to_n[p.n], G2Alpha(p)), p.gt_alpha_nplus1) # 0
\* 4: e(T, g_2^{alpha^N}) = e(U_1, g_2) = e(g_1, U_2)
Check4Tmp(p, pt) == Pairing(pt.t, p.g2_alpha_1_to_n[p.n])
Check4aFails(p, pt) == Check4Tmp(p, pt) # Pairing(pt.u1, G2One)
\* variant: the second comparison of check 4 made against U_1 again
Check4bFailsU1(p, pt) == Check4Tmp(p, pt) # Pairing(pt.u1, G2One)
Check4bFails(p, pt) == Check4Tmp(p, pt) # Pairing(G1One, pt.u2)

PairingCheck(at, fails, labels, next) ==
    /\ pc = at
    /\ evaluated' = evaluated \o labels
    /\ IF fails
       THEN pc' = "ret" /\ ret' = "false"
       ELSE pc' = next /\ ret' = ret
    /\ UNCHANGED <<origin, params, call, w, outcome, des, rs_owned, r, pts>>

Check1 == PairingCheck("check1", Check1Fails(params, pts), <<"e(R1,g2)", "e(g1,R2)">>, "check2")
Check2 == PairingCheck("check2", Check2Fails(params, pts), <<"e(S,g2a)", "e(T,g2)">>, "check3")
Check3 == PairingCheck("check3", Check3Fails(params, pts), <<"e(g1n,g2a)">>, "check4")

\* `tmp != e(U_1, g_2) || tmp != e(g_1, U_2)`: the right operand is evaluated
\* only when the left one is false
Check4 ==
    /\ pc = "check4"
    /\ evaluated' = evaluated \o <<"e(T,g2n)", "e(U1,g2)">>
                      \o (IF Check4aFails(params, pts) THEN <<>> ELSE <<"e(g1,U2)">>)
    /\ pc' = "ret"
    /\ ret' = IF Check4aFails(params, pts) \/ Check4bFails(params, pts)
              THEN "false" ELSE "true"
    /\ UNCHANGED <<origin, params, call, w, outcome, des, rs_owned, r, pts>>

Next ==
    \/ CallSerialize
    \/ CallDeserialize
    \/ CallConsistent
    \/ CheckG2Main
    \/ CheckG2Gap
    \/ CheckG1Main
    \/ CheckG1Gap
    \/ Sample
    \/ ComputeSums
    \/ Check1
    \/ Check2
    \/ Check3
    \/ Check4

Spec == Init /\ [][Next]_vars

\* ================================================================= claims
Honest == origin.ladder = "none"
Tampered == origin.ladder # "none"
Returned == call.op = "consistent" /\ pc = "ret"

\* the exponents the ladders of a set of capacity n hold
LadderExponents(n) == (1 .. (2 * n)) \ {n + 1}
\* no power of alpha held by a ladder is the identity (0) or the generator (1)
GoodTrapdoor(alpha, n) == \A i \in LadderExponents(n) : Pow(alpha, i) \notin {0, 1}

\* C1 as stated: consistent returns true on every honestly generated parameter
\* set, for every n, every trapdoor alpha and every choice of r_1..r_n.
C1_HonestAlwaysTrue == (Returned /\ Honest) => ret = "true"

\* C1 amended: consistent returns true on every honestly generated parameter
\* set whose trapdoor has no power alpha^i, i in 1..n or n+2..2n, equal to 0
\* or 1, for every n and every choice of r_1..r_n.
C1_HonestGoodTrapdoorTrue ==
    (Returned /\ Honest /\ GoodTrapdoor(origin.alpha, origin.n)) => ret = "true"

C1_Witness ==
    /\ Returned /\ Honest /\ GoodTrapdoor(origin.alpha, origin.n)
    /\ params.n = 2 /\ rs_owned[1] # 0 /\ rs_owned[2] # 0
    /\ ret = "true"

\* C2 as stated: consistent returns false on every honest parameter set in
\* which one ladder entry was replaced by a different group element.
C2_TamperedAlwaysFalse == (Returned /\ Tampered) => ret = "false"

\* C2 amended: consistent returns false on every honest parameter set in
\* which one ladder entry was replaced by a different group element, whenever
\* the coefficient r_k drawn for the index k of the replaced entry is not 0.
C2_TamperedFalseUnlessZeroCoefficient ==
    (Returned /\ Tampered /\ (Len(rs_owned) = params.n => rs_owned[origin.idx] # 0))
        => ret = "false"

C2_Witness ==
    /\ Returned /\ Tampered
    /\ origin.ladder = "g2_alpha_nplus2_to_2n"
    /\ Len(rs_owned) = params.n /\ rs_owned[origin.idx] # 0
    /\ Len(evaluated) = 8
    /\ ret = "false"

\* C3: deserialize(serialize(p, true), true) succeeds and returns p, field by
\* field, for every parameter set with ladders of lengths n, n-1, n, n-1.
C3_RoundTrip ==
    (call.op = "deserialize" /\ call.compressed /\ call.input.kind = "valid")
        => /\ call.input.bytes = Serialize(params, <<>>, TRUE).w
           /\ outcome = "ok"
           /\ des.ok
           /\ des.val.n = params.n
           /\ des.val.g1_alpha_1_to_n = params.g1_alpha_1_to_n
           /\ des.val.g1_alpha_nplus2_to_2n = params.g1_alpha_nplus2_to_2n
           /\ des.val.g2_alpha_1_to_n = params.g2_alpha_1_to_n
           /\ des.val.g2_alpha_nplus2_to_2n = params.g2_alpha_nplus2_to_2n
           /\ des.val.gt_alpha_nplus1 = params.gt_alpha_nplus1

C3_Witness ==
    /\ call.op = "deserialize" /\ call.compressed /\ call.input.kind = "valid"
    /\ params.n = 2
    /\ params.g1_alpha_1_to_n # params.g2_alpha_1_to_n
    /\ des.ok /\ des.val = params

Deserialized == call.op = "deserialize"
\* the n an input declares in its first four bytes (0 when it has fewer)
DeclaredN(bytes) ==
    IF Len(bytes) < HeaderSize THEN 0 ELSE FromLeBytes(SubSeq(bytes, 1, HeaderSize))
\* the bytes a parameter set of capacity n takes on the wire
WireLen(n) == HeaderSize + (2 * n - 1) * G1Size + (2 * n - 1) * G2Size + GtSize
ShapeOf(n) == <<n, n - 1, n, n - 1>>

\* C4: deserialize returns an error on every wire image cut short at its end
\* and on every wire image with bytes appended after the GT element.
C4_MalformedLengthFails ==
    (Deserialized /\ call.input.kind \in {"truncated", "padded"}) => outcome = "err"

C6_OnlyCompressed ==
    /\ (call.op = "serialize" /\ ~call.compressed) => (outcome = "err" /\ w = <<>>)
    /\ (Deserialized /\ ~call.compressed)
          => (outcome = "err" /\ ~des.ok /\ des.pos = 0 /\ des.val = NoParams)

C6_Witness ==
    /\ call.op = "serialize" /\ ~call.compressed
    /\ params.n = 2
    /\ outcome = "err" /\ w = <<>>

\* the bytes of image b that hold entry i (from 1) of a ladder whose first
\* entry starts after `off` bytes, each entry being `size` bytes
EntryBytes(b, off, i, size) == SubSeq(b, off + (i - 1) * size + 1, off + i * size)
OffG1Main == HeaderSize
OffG1Gap(lens) == OffG1Main + lens[1] * G1Size
OffG2Main(lens) == OffG1Gap(lens) + lens[2] * G1Size
OffG2Gap(lens) == OffG2Main(lens) + lens[3] * G2Size
OffGt(lens) == OffG2Gap(lens) + lens[4] * G2Size

\* image b holds exactly the fields of p at the offsets of the wire format
LaidOut(b, p) ==
    LET lens == LensOf(p) IN
    /\ \A k \in 0 .. 3 : b[k + 1] = (p.n \div (256 ^ k)) % 256
    /\ \A i \in 1 .. lens[1] :
          EntryBytes(b, OffG1Main, i, G1Size) = EncPoint(p.g1_alpha_1_to_n[i], G1Size)
    /\ \A i \in 1 .. lens[2] :
          EntryBytes(b, OffG1Gap(lens), i, G1Size)
              = EncPoint(p.g1_alpha_nplus2_to_2n[i], G1Size)
    /\ \A i \in 1 .. lens[3] :
          EntryBytes(b, OffG2Main(lens), i, G2Size) = EncPoint(p.g2_alpha_1_to_n[i], G2Size)
    /\ \A i \in 1 .. lens[4] :
          EntryBytes(b, OffG2Gap(lens), i, G2Size)
              = EncPoint(p.g2_alpha_nplus2_to_2n[i], G2Size)
    /\ SubSeq(b, OffGt(lens) + 1, OffGt(lens) + GtSize) = EncGt(p.gt_alpha_nplus1)

\* C7: a successful serialize writes the 4 bytes of n, least significant
\* first, then the points of g1_alpha_1_to_n, g1_alpha_nplus2_to_2n,
\* g2_alpha_1_to_n and g2_alpha_nplus2_to_2n in index order, then
\* gt_alpha_nplus1, and nothing else; a successful deserialize has read its
\* fields from the same places of its input.
C7_WireLayout ==
    /\ (call.op = "serialize" /\ outcome = "ok")
          => (Len(w) = OffGt(LensOf(params)) + GtSize /\ LaidOut(w, params))
    /\ (Deserialized /\ outcome = "ok")
          => /\ des.pos = OffGt(LensOf(des.val)) + GtSize
             /\ LaidOut(call.input.bytes, des.val)

C7_Witness ==
    /\ call.op = "serialize" /\ outcome = "ok"
    /\ params.n = 2
    /\ Len(w) = WireLen(2)
    /\ params.g1_alpha_1_to_n[2] # params.g1_alpha_nplus2_to_2n[1]

AllZero(seq) == \A i \in DOMAIN seq : seq[i] = 0
\* every byte of a buffer of the given content is 0
Zeroed(content) == \A v \in DOMAIN content : v = 0

\* C8: on every return path of consistent, the coefficients r_1..r_n held by
\* rs_owned and the 64-byte entropy buffer of random_scalar have been
\* overwritten with zero.
C8_SecretsZeroedOnReturn == Returned => (AllZero(rs_owned) /\ Zeroed(r))

\* some point of some ladder is the identity or the generator of its group
BadPoint(p) == \E l \in Ladders : \E i \in DOMAIN p[l] : p[l][i] \in {0, 1}
PointCheckPositions == {"chk_g2_main", "chk_g2_gap", "chk_g1_main", "chk_g1_gap"}

\* C9: when some point of one of the four ladders is the identity or the
\* generator of its group, consistent returns false, and it has sampled no
\* coefficient and evaluated no pairing.
C9_BadPointRejectedFirst ==
    (call.op = "consistent" /\ BadPoint(params))
        => /\ pc \in PointCheckPositions \cup {"ret"}
           /\ pc = "ret" => ret = "false"
           /\ pc # "ret" => ret = "none"
           /\ rs_owned = <<>>
           /\ Zeroed(r)
           /\ pts = NoPts
           /\ evaluated = <<>>

C9_Witness ==
    /\ Returned /\ ret = "false"
    /\ origin.ladder = "g1_alpha_nplus2_to_2n" /\ origin.val = 1
    /\ GoodTrapdoor(origin.alpha, origin.n)
    /\ rs_owned = <<>> /\ evaluated = <<>>

\* sum over i = 1..count of rs[i] * points[i + shift]
RECURSIVE Weighted(_, _, _, _)
Weighted(points, rs, shift, count) ==
    IF count = 0 THEN 0
    ELSE (Weighted(points, rs, shift, count - 1) + rs[count] * points[count + shift]) % q

\* the four equations of C10, on a parameter set p and coefficients rs; GT is
\* written by exponents, so e(A, B) is the product A * B modulo q
EqS(p, rs) == Weighted(p.g1_alpha_1_to_n, rs, 0, p.n - 1)
EqR1(p, rs) == (EqS(p, rs) + rs[p.n] * p.g1_alpha_1_to_n[p.n]) % q
EqR2(p, rs) == Weighted(p.g2_alpha_1_to_n, rs, 0, p.n)
EqT(p, rs) == Weighted(p.g1_alpha_1_to_n, rs, 1, p.n - 1)
EqU1(p, rs) == Weighted(p.g1_alpha_nplus2_to_2n, rs, 0, p.n - 1)
EqU2(p, rs) == Weighted(p.g2_alpha_nplus2_to_2n, rs, 0, p.n - 1)
Eq1(p, rs) == (EqR1(p, rs) * 1) % q = (1 * EqR2(p, rs)) % q
Eq2(p, rs) == (EqS(p, rs) * p.g2_alpha_1_to_n[1]) % q = (EqT(p, rs) * 1) % q
Eq3(p, rs) == (p.g1_alpha_1_to_n[p.n] * p.g2_alpha_1_to_n[1]) % q = p.gt_alpha_nplus1
Eq4a(p, rs) == (EqT(p, rs) * p.g2_alpha_1_to_n[p.n]) % q = (EqU1(p, rs) * 1) % q
Eq4b(p, rs) == (EqT(p, rs) * p.g2_alpha_1_to_n[p.n]) % q = (1 * EqU2(p, rs)) % q

Labels1 == <<"e(R1,g2)", "e(g1,R2)">>
Labels2 == Labels1 \o <<"e(S,g2a)", "e(T,g2)">>
Labels3 == Labels2 \o <<"e(g1n,g2a)">>
Labels4a == Labels3 \o <<"e(T,g2n)", "e(U1,g2)">>
Labels4 == Labels4a \o <<"e(g1,U2)">>

\* the pairings consistent is to have evaluated when it returns: those of the
\* checks up to the first one that fails
ExpectedEvaluated(p, rs) ==
    IF BadPoint(p) THEN <<>>
    ELSE IF ~Eq1(p, rs) THEN Labels1
    ELSE IF ~Eq2(p, rs) THEN Labels2
    ELSE IF ~Eq3(p, rs) THEN Labels3
    ELSE IF ~Eq4a(p, rs) THEN Labels4a
    ELSE Labels4

\* C10: consistent returns true exactly when no ladder point is the identity
\* or the generator and e(R1,g2) = e(g1,R2), e(S,g2^alpha) = e(T,g2),
\* e(g1^(alpha^n),g2^alpha) = gt_alpha_nplus1 and e(T,g2^(alpha^n)) =
\* e(U1,g2) = e(g1,U2) hold for the coefficients drawn; the checks are
\* evaluated in this order, and none after the first that fails.
C10_TrueIffAllChecksInOrder ==
    Returned =>
        /\ ret \in {"true", "false"}
        /\ ret = "true" <=>
              /\ ~BadPoint(params)
              /\ Len(rs_owned) = params.n
              /\ Eq1(params, rs_owned) /\ Eq2(params, rs_owned) /\ Eq3(params, rs_owned)
              /\ Eq4a(params, rs_owned) /\ Eq4b(params, rs_owned)
        /\ ~BadPoint(params) => Len(rs_owned) = params.n
        /\ evaluated = ExpectedEvaluated(params, rs_owned)

C10_Witness ==
    /\ Returned /\ ret = "false"
    /\ params.n = 2
    /\ ~BadPoint(params)
    /\ Eq1(params, rs_owned) /\ ~Eq2(params, rs_owned)
    /\ evaluated = Labels2

\* positions of consistent after the sums of lines 184-209 were formed
PastSums == (pc \in {"check1", "check2", "check3", "check4"})
                \/ (pc = "ret" /\ evaluated # <<>>)
\* 0-based index i lies within seq
IndexIn(seq, i) == (i + 1) \in DOMAIN seq
\* the 0-based range [lo..hi) lies within seq and holds `count` entries
RangeIn(seq, lo, hi, count) ==
    /\ \A i \in lo .. (hi - 1) : IndexIn(seq, i)
    /\ lo <= hi /\ hi - lo = count

\* C11: on a parameter set with n >= 1 and ladders of lengths n, n-1, n, n-1,
\* consistent never aborts: when it forms its sums it holds n coefficients,
\* the ranges [0..n-1], [1..n] and [0..n] and the indices n-1 and 0 it uses lie
\* within their ladders and within the coefficients, each range as long as
\* the coefficient range it is paired with; it returns true or false; and for
\* n = 1 the sums S, T, U1, U2 are over nothing (the identity).
C11_NoAbortOnWellShaped ==
    (call.op = "consistent" /\ params.n >= 1 /\ LensOf(params) = ShapeOf(params.n))
        => /\ ret # "abort"
           /\ pc = "ret" => ret \in {"true", "false"}
           /\ PastSums =>
                 LET n == params.n IN
                 /\ Len(rs_owned) = n
                 /\ RangeIn(params.g1_alpha_1_to_n, 0, n - 1, n - 1)
                 /\ RangeIn(params.g1_alpha_1_to_n, 1, n, n - 1)
                 /\ RangeIn(params.g2_alpha_1_to_n, 0, n, n)
                 /\ RangeIn(params.g1_alpha_nplus2_to_2n, 0, n - 1, n - 1)
                 /\ RangeIn(params.g2_alpha_nplus2_to_2n, 0, n - 1, n - 1)
                 /\ RangeIn(rs_owned, 0, n - 1, n - 1)
                 /\ RangeIn(rs_owned, 0, n, n)
                 /\ IndexIn(params.g1_alpha_1_to_n, n - 1)
                 /\ IndexIn(params.g2_alpha_1_to_n, n - 1)
                 /\ IndexIn(rs_owned, n - 1)
                 /\ IndexIn(params.g2_alpha_1_to_n, 0)
                 /\ n = 1 => (pts.s = 0 /\ pts.t = 0 /\ pts.u1 = 0 /\ pts.u2 = 0)

C11_Witness ==
    /\ Returned /\ ret = "true"
    /\ params.n = 1 /\ LensOf(params) = <<1, 0, 1, 0>>
    /\ rs_owned # <<>> /\ rs_owned[1] # 0
    /\ pts.s = 0 /\ pts.t = 0 /\ pts.u1 = 0 /\ pts.u2 = 0 /\ pts.r1 # 0
    /\ evaluated = Labels4

====
